---- MODULE Spec2Model ----
(***************************************************************************)
(* Model of tools/virtual_m8.py: the VirtualM8 device state machine, the   *)
(* LED sysex encoder create_led_sysex and the receive/send loop            *)
(* run_virtual_m8.                                                         *)
(*                                                                         *)
(* A Python dict is modelled as the sequence of its <<key, value>> items   *)
(* in insertion order; a Python list of tuples as a sequence of tuples; an *)
(* (r, g, b) tuple as <<r, g, b>>.                                         *)
(***************************************************************************)
EXTENDS Integers, Sequences, FiniteSets, TLC

(***************************************************************************)
(* Bounds of the model.                                                    *)
(***************************************************************************)
\* Number of inbound messages the loop takes before the model stops feeding it.
MaxEvents == 3

\* Longest update list handed to create_led_sysex on its own (SpecEncode).
MaxLen == 3

(***************************************************************************)
(* Protocol constants.                                                     *)
(***************************************************************************)
LPP_SYSEX_HEADER == <<0, 32, 41, 2, 16>>

LED_MODE_RGB == 11

\* mutant: the modifier color on the 8-bit scale
M8_COLORS_8bit ==
  [ off       |-> <<0, 0, 0>>,
    white     |-> <<63, 63, 63>>,
    red       |-> <<63, 0, 0>>,
    green     |-> <<0, 63, 0>>,
    blue      |-> <<0, 0, 63>>,
    yellow    |-> <<63, 63, 0>>,
    cyan      |-> <<0, 63, 63>>,
    magenta   |-> <<63, 0, 63>>,
    orange    |-> <<255, 128, 0>>,
    pink      |-> <<63, 20, 40>>,
    dim_white |-> <<20, 20, 20>>,
    dim_red   |-> <<20, 0, 0>>,
    dim_green |-> <<0, 20, 0>>,
    dim_blue  |-> <<0, 0, 20>> ]

M8_COLORS ==
  [ off       |-> <<0, 0, 0>>,
    white     |-> <<63, 63, 63>>,
    red       |-> <<63, 0, 0>>,
    green     |-> <<0, 63, 0>>,
    blue      |-> <<0, 0, 63>>,
    yellow    |-> <<63, 63, 0>>,
    cyan      |-> <<0, 63, 63>>,
    magenta   |-> <<63, 0, 63>>,
    orange    |-> <<63, 32, 0>>,
    pink      |-> <<63, 20, 40>>,
    dim_white |-> <<20, 20, 20>>,
    dim_red   |-> <<20, 0, 0>>,
    dim_green |-> <<0, 20, 0>>,
    dim_blue  |-> <<0, 0, 20>> ]

(***************************************************************************)
(* Python dict operations on a sequence of <<key, value>> items.           *)
(***************************************************************************)
\* key in d
DictHas(d, k) == \E i \in 1..Len(d) : d[i][1] = k

\* d[key]; only used where the key is present
DictGet(d, k) == d[CHOOSE i \in 1..Len(d) : d[i][1] = k][2]

\* d[key] = value: an existing key keeps its position, a new key is appended
DictSet(d, k, v) ==
  IF DictHas(d, k)
  THEN [i \in 1..Len(d) |-> IF d[i][1] = k THEN <<k, v>> ELSE d[i]]
  ELSE Append(d, <<k, v>>)

\* the assignments d[k] = v for each <<k, v>> of items, in order: a key of d
\* keeps its position and takes the last value assigned to it, the new keys
\* follow in the order of their first assignment
DictSetAll(d, items) ==
  LET Assigned(k) == \E j \in 1..Len(items) : items[j][1] = k
      LastValue(k) ==
        items[CHOOSE j \in 1..Len(items) :
                /\ items[j][1] = k
                /\ \A j2 \in (j + 1)..Len(items) : items[j2][1] # k][2]
      kept == [i \in 1..Len(d) |->
                 IF Assigned(d[i][1]) THEN <<d[i][1], LastValue(d[i][1])>> ELSE d[i]]
      fresh == SelectSeq([j \in 1..Len(items) |-> j],
                         LAMBDA j : /\ ~DictHas(d, items[j][1])
                                    /\ \A j2 \in 1..(j - 1) : items[j2][1] # items[j][1])
  IN kept \o [n \in 1..Len(fresh) |->
               <<items[fresh[n]][1], LastValue(items[fresh[n]][1])>>]

(***************************************************************************)
(* class VirtualM8.  self is the record of the object's attributes; every  *)
(* method returns the record [self |-> attributes after the call,          *)
(* ret |-> returned value].                                                *)
(***************************************************************************)
\* for row in range(1, 9): for col in range(1, 9): note = row * 10 + col
GridItems ==
  [k \in 1..64 |-> <<(((k - 1) \div 8) + 1) * 10 + ((k - 1) % 8) + 1,
                     M8_COLORS.dim_white>>]

\* for i, note in enumerate(range(91, 99))
TrackItems ==
  [k \in 1..8 |-> <<90 + k, IF k - 1 = 0 THEN M8_COLORS.cyan
                                          ELSE M8_COLORS.dim_white>>]

NavItems ==
  << <<89, M8_COLORS.dim_blue>>, <<79, M8_COLORS.dim_blue>>,
     <<69, M8_COLORS.dim_blue>>, <<59, M8_COLORS.dim_blue>> >>

\* mutant: every track selector starts dim, none is highlighted
init_leds_no_highlight(led_state) ==
  DictSetAll(DictSetAll(DictSetAll(led_state, GridItems),
                        [k \in 1..8 |-> <<90 + k, M8_COLORS.dim_white>>]),
             NavItems)

init_leds(led_state) ==
  DictSetAll(DictSetAll(DictSetAll(led_state, GridItems), TrackItems), NavItems)

VirtualM8Init ==
  [ led_state     |-> init_leds(<<>>),
    current_track |-> 0,
    current_view  |-> "song",
    shift_held    |-> FALSE ]

select_track(self, track) == [self EXCEPT !.current_track = track]

\* mutant: the highlight lands one selector to the left of the selected track
track_updates_off_by_one(self) ==
  [k \in 1..8 |-> <<91 + (k - 1),
                    IF k = self.current_track THEN M8_COLORS.cyan
                                              ELSE M8_COLORS.dim_white>>]

\* for i in range(8): one update per selector, stored and appended in order
track_updates(self) ==
  [k \in 1..8 |-> <<91 + (k - 1),
                    IF k - 1 = self.current_track THEN M8_COLORS.cyan
                                                  ELSE M8_COLORS.dim_white>>]

\* mutant: only the selectors whose color changes are stored and returned
get_track_led_updates_delta(self) ==
  LET changed == SelectSeq(track_updates(self),
                           LAMBDA u : DictGet(self.led_state, u[1]) # u[2])
  IN [ self |-> [self EXCEPT !.led_state = DictSetAll(self.led_state, changed)],
       ret  |-> changed ]

\* mutant: all eight selectors are stored, only the selected one is returned
get_track_led_updates_selected_only(self) ==
  [ self |-> [self EXCEPT !.led_state = DictSetAll(self.led_state, track_updates(self))],
    ret  |-> SelectSeq(track_updates(self), LAMBDA u : u[2] = M8_COLORS.cyan) ]

get_track_led_updates(self) ==
  [ self |-> [self EXCEPT !.led_state = DictSetAll(self.led_state, track_updates(self))],
    ret  |-> track_updates(self) ]

\* mutant: the update carries the color stored before the assignment
handle_nav_stale(self, note, pressed) ==
  LET led == DictSet(self.led_state, note,
                     IF pressed THEN M8_COLORS.blue ELSE M8_COLORS.dim_blue)
  IN [ self |-> [self EXCEPT !.led_state = led],
       ret  |-> << <<note, DictGet(self.led_state, note)>> >> ]

handle_nav(self, note, pressed) ==
  LET led == DictSet(self.led_state, note,
                     IF pressed THEN M8_COLORS.blue ELSE M8_COLORS.dim_blue)
  IN [ self |-> [self EXCEPT !.led_state = led],
       ret  |-> << <<note, DictGet(led, note)>> >> ]

\* mutant: the range test alone, columns 0 and 9 included
IsGridNote_range_only(note) == 11 <= note /\ note <= 88

\* 11 <= note <= 88 and note % 10 != 0 and note % 10 != 9
IsGridNote(note) == 11 <= note /\ note <= 88 /\ note % 10 # 0 /\ note % 10 # 9

IsNavNote(note) == note \in {89, 79, 69, 59}

\* mutant: a press of a lit grid pad dims it again (toggle)
handle_note_on_toggle(self, note, velocity) ==
  IF 91 <= note /\ note <= 98
  THEN get_track_led_updates(select_track(self, note - 91))
  ELSE IF IsNavNote(note)
  THEN handle_nav(self, note, TRUE)
  ELSE IF IsGridNote(note)
  THEN LET color == IF DictGet(self.led_state, note) = M8_COLORS.white
                    THEN M8_COLORS.dim_white ELSE M8_COLORS.white
       IN [ self |-> [self EXCEPT !.led_state = DictSet(self.led_state, note, color)],
            ret  |-> << <<note, color>> >> ]
  ELSE IF note = 106
  THEN [ self |-> [self EXCEPT !.shift_held = TRUE],
         ret  |-> << <<note, M8_COLORS.orange>> >> ]
  ELSE [ self |-> self, ret |-> <<>> ]

handle_note_on(self, note, velocity) ==
  IF 91 <= note /\ note <= 98
  THEN get_track_led_updates(select_track(self, note - 91))
  ELSE IF IsNavNote(note)
  THEN handle_nav(self, note, TRUE)
  ELSE IF IsGridNote(note)
  THEN [ self |-> [self EXCEPT !.led_state = DictSet(self.led_state, note, M8_COLORS.white)],
         ret  |-> << <<note, M8_COLORS.white>> >> ]
  ELSE IF note = 106
  THEN [ self |-> [self EXCEPT !.shift_held = TRUE],
         ret  |-> << <<note, M8_COLORS.orange>> >> ]
  ELSE [ self |-> self, ret |-> <<>> ]

\* mutant: a release acts only on a control that is lit as pressed
handle_note_off_if_pressed(self, note, velocity) ==
  IF IsGridNote(note)
  THEN IF DictGet(self.led_state, note) = M8_COLORS.white
       THEN [ self |-> [self EXCEPT !.led_state = DictSet(self.led_state, note, M8_COLORS.dim_white)],
              ret  |-> << <<note, M8_COLORS.dim_white>> >> ]
       ELSE [ self |-> self, ret |-> <<>> ]
  ELSE IF IsNavNote(note)
  THEN IF DictGet(self.led_state, note) = M8_COLORS.blue
       THEN handle_nav(self, note, FALSE)
       ELSE [ self |-> self, ret |-> <<>> ]
  ELSE IF note = 106
  THEN [ self |-> [self EXCEPT !.shift_held = FALSE],
         ret  |-> << <<note, M8_COLORS.dim_white>> >> ]
  ELSE [ self |-> self, ret |-> <<>> ]

\* mutant: a grid release repaints the whole boot pattern
handle_note_off_reset(self, note, velocity) ==
  IF IsGridNote(note)
  THEN [ self |-> [self EXCEPT !.led_state =
                     DictSet(init_leds(self.led_state), note, M8_COLORS.dim_white)],
         ret  |-> << <<note, M8_COLORS.dim_white>> >> ]
  ELSE IF IsNavNote(note)
  THEN handle_nav(self, note, FALSE)
  ELSE IF note = 106
  THEN [ self |-> [self EXCEPT !.shift_held = FALSE],
         ret  |-> << <<note, M8_COLORS.dim_white>> >> ]
  ELSE [ self |-> self, ret |-> <<>> ]

\* mutant: a grid release returns the dim update without storing it
handle_note_off_nostore(self, note, velocity) ==
  IF IsGridNote(note)
  THEN [ self |-> self, ret |-> << <<note, M8_COLORS.dim_white>> >> ]
  ELSE IF IsNavNote(note)
  THEN handle_nav(self, note, FALSE)
  ELSE IF note = 106
  THEN [ self |-> [self EXCEPT !.shift_held = FALSE],
         ret  |-> << <<note, M8_COLORS.dim_white>> >> ]
  ELSE [ self |-> self, ret |-> <<>> ]

handle_note_off(self, note, velocity) ==
  IF IsGridNote(note)
  THEN [ self |-> [self EXCEPT !.led_state = DictSet(self.led_state, note, M8_COLORS.dim_white)],
         ret  |-> << <<note, M8_COLORS.dim_white>> >> ]
  ELSE IF IsNavNote(note)
  THEN handle_nav(self, note, FALSE)
  ELSE IF note = 106
  THEN [ self |-> [self EXCEPT !.shift_held = FALSE],
         ret  |-> << <<note, M8_COLORS.dim_white>> >> ]
  ELSE [ self |-> self, ret |-> <<>> ]

\* list(self.led_state.items())
get_all_leds(self) == self.led_state

(***************************************************************************)
(* create_led_sysex.  The sysex message is modelled by its data bytes; the *)
(* returned None by the value None.                                        *)
(***************************************************************************)
None == <<>>

\* for note, (r, g, b) in updates: data.extend([note, r, g, b])
ExtendAll(data, updates) ==
  data \o [i \in 1..(4 * Len(updates)) |->
             LET u == updates[((i - 1) \div 4) + 1]
                 j == (i - 1) % 4
             IN IF j = 0 THEN u[1] ELSE u[2][j]]

\* mutant: the quads are written last update first
create_led_sysex_reversed(updates) ==
  IF updates = <<>> THEN None
  ELSE ExtendAll(LPP_SYSEX_HEADER \o <<LED_MODE_RGB>>,
                 [i \in 1..Len(updates) |-> updates[Len(updates) + 1 - i]])

create_led_sysex(updates) ==
  IF updates = <<>> THEN None
  ELSE ExtendAll(LPP_SYSEX_HEADER \o <<LED_MODE_RGB>>, updates)

(***************************************************************************)
(* run_virtual_m8.                                                         *)
(***************************************************************************)
VARIABLES
  m8,        \* the VirtualM8 object
  inport,    \* the input port: "unopened", "open" or "closed"
  outport,   \* the output port: "unopened", "open" or "closed"
  pc,        \* position in run_virtual_m8: "open", "boot", "poll", "send",
             \* "returned", or "raised_at_boot" / "raised_in_loop" when an
             \* exception of outport.send left the function before / inside
             \* the try block, "interrupted_at_boot" when a KeyboardInterrupt
             \* left it before the try block
  msg,       \* the loop variable msg: the inbound message being processed
  updates,   \* the loop variable updates
  sent,      \* the frames outport.send has written, in order
  handled,   \* the updates value of every message processed so far, in order
  controls   \* the note numbers the connected surface sends in this run

vars == <<m8, inport, outport, pc, msg, updates, sent, handled, controls>>

\* note numbers a MIDI note message can carry
Notes == 0..127

\* velocities of the note messages fed to the loop
Velocities == {0, 1, 127}

\* a run exercises two controls: any note number, and with it a grid pad or
\* a track selector
Companions == {45, 94}

NoMsg == [type |-> "none", note |-> 0, velocity |-> 0]

Init ==
  /\ m8 = VirtualM8Init
  /\ inport = "unopened"
  /\ outport = "unopened"
  /\ pc = "open"
  /\ msg = NoMsg
  /\ updates = <<>>
  /\ sent = <<>>
  /\ handled = <<>>
  /\ \E c \in Notes, d \in Companions : controls = {c, d}

\* inport = mido.open_input(...); outport = mido.open_output(...)
OpenPorts ==
  /\ pc = "open"
  /\ inport' = "open"
  /\ outport' = "open"
  /\ pc' = "boot"
  /\ UNCHANGED <<m8, msg, updates, sent, handled, controls>>

\* mido.open_input raises: except Exception: log; return
OpenInputFails ==
  /\ pc = "open"
  /\ pc' = "returned"
  /\ UNCHANGED <<m8, inport, outport, msg, updates, sent, handled, controls>>

\* mutant: a failed open_output is logged and the run goes on to the snapshot
OpenOutputFails_goes_on ==
  /\ pc = "open"
  /\ inport' = "open"
  /\ pc' = "boot"
  /\ UNCHANGED <<m8, outport, msg, updates, sent, handled, controls>>

\* mido.open_output raises after open_input succeeded: except Exception: log; return
OpenOutputFails ==
  /\ pc = "open"
  /\ inport' = "open"
  /\ pc' = "returned"
  /\ UNCHANGED <<m8, outport, msg, updates, sent, handled, controls>>

\* initial_leds = m8.get_all_leds(); sysex = create_led_sysex(initial_leds);
\* if sysex: outport.send(sysex)
SendInitial ==
  /\ pc = "boot"
  /\ LET sysex == create_led_sysex(get_all_leds(m8))
     IN sent' = IF sysex # None THEN Append(sent, sysex) ELSE sent
  /\ pc' = "poll"
  /\ UNCHANGED <<m8, inport, outport, msg, updates, handled, controls>>

\* outport.send raises before the try block: the exception leaves
\* run_virtual_m8 and no port is closed
SendInitialFails ==
  /\ pc = "boot"
  /\ pc' = "raised_at_boot"
  /\ UNCHANGED <<m8, inport, outport, msg, updates, sent, handled, controls>>

\* end of the dispatch of one message: if updates: ... send
Dispatched(m, r) ==
  /\ msg' = m
  /\ m8' = r.self
  /\ updates' = r.ret
  /\ handled' = Append(handled, r.ret)
  /\ pc' = IF r.ret # <<>> THEN "send" ELSE "poll"
  /\ UNCHANGED <<inport, outport, sent, controls>>

CanPoll == pc = "poll" /\ Len(handled) < MaxEvents

\* msg.type == 'note_on' and msg.velocity > 0
NoteOn(note, velocity) ==
  /\ CanPoll
  /\ velocity > 0
  /\ Dispatched([type |-> "note_on", note |-> note, velocity |-> velocity],
                handle_note_on(m8, note, velocity))

\* mutant: a note_on is a press whatever its velocity
NoteOnZero_as_press(note) ==
  /\ CanPoll
  /\ Dispatched([type |-> "note_on", note |-> note, velocity |-> 0],
                handle_note_on(m8, note, 0))

\* msg.type == 'note_on' and msg.velocity == 0
NoteOnZero(note) ==
  /\ CanPoll
  /\ Dispatched([type |-> "note_on", note |-> note, velocity |-> 0],
                handle_note_off(m8, note, 0))

\* msg.type == 'note_off'
NoteOff(note) ==
  /\ CanPoll
  /\ Dispatched([type |-> "note_off", note |-> note, velocity |-> 0],
                handle_note_off(m8, note, 0))

\* mutant: a control change is taken for a press of the control it names
ControlChange_as_press ==
  /\ CanPoll
  /\ Dispatched([type |-> "control_change", note |-> 0, velocity |-> 0],
                handle_note_on(m8, 89, 127))

\* msg.type == 'control_change': logged
ControlChange ==
  /\ CanPoll
  /\ Dispatched([type |-> "control_change", note |-> 0, velocity |-> 0],
                [self |-> m8, ret |-> <<>>])

\* msg.type == 'sysex': logged
SysexReceived ==
  /\ CanPoll
  /\ Dispatched([type |-> "sysex", note |-> 0, velocity |-> 0],
                [self |-> m8, ret |-> <<>>])

\* any other message type (polytouch, aftertouch, ...): no branch taken
OtherMessage ==
  /\ CanPoll
  /\ Dispatched([type |-> "polytouch", note |-> 0, velocity |-> 0],
                [self |-> m8, ret |-> <<>>])

\* mutant: the quads of an update are added to the previous update's frame
SendUpdate_batched ==
  /\ pc = "send"
  /\ LET sysex == create_led_sysex(updates)
     IN sent' = IF Len(sent) >= 2
                THEN [sent EXCEPT ![Len(sent)] = @ \o SubSeq(sysex, 7, Len(sysex))]
                ELSE Append(sent, sysex)
  /\ pc' = "poll"
  /\ UNCHANGED <<m8, inport, outport, msg, updates, handled, controls>>

\* if updates: sysex = create_led_sysex(updates); if sysex: outport.send(sysex)
SendUpdate ==
  /\ pc = "send"
  /\ LET sysex == create_led_sysex(updates)
     IN sent' = IF sysex # None THEN Append(sent, sysex) ELSE sent
  /\ pc' = "poll"
  /\ UNCHANGED <<m8, inport, outport, msg, updates, handled, controls>>

\* outport.send raises inside the try block: no except clause matches, the
\* finally clause closes both ports and the exception leaves run_virtual_m8
SendUpdateFails ==
  /\ pc = "send"
  /\ inport' = "closed"
  /\ outport' = "closed"
  /\ pc' = "raised_in_loop"
  /\ UNCHANGED <<m8, msg, updates, sent, handled, controls>>

\* KeyboardInterrupt inside the try block: logged, finally closes both ports
InterruptInLoop ==
  /\ pc \in {"poll", "send"}
  /\ inport' = "closed"
  /\ outport' = "closed"
  /\ pc' = "returned"
  /\ UNCHANGED <<m8, msg, updates, sent, handled, controls>>

\* KeyboardInterrupt after the ports were opened and before the try block is
\* entered: the exception leaves run_virtual_m8 and no port is closed
InterruptAtBoot ==
  /\ pc = "boot"
  /\ pc' = "interrupted_at_boot"
  /\ UNCHANGED <<m8, inport, outport, msg, updates, sent, handled, controls>>

Next ==
  \/ OpenPorts
  \/ OpenInputFails
  \/ OpenOutputFails
  \/ SendInitial
  \/ SendInitialFails
  \/ \E note \in controls, velocity \in Velocities : NoteOn(note, velocity)
  \/ \E note \in controls : NoteOnZero(note)
  \/ \E note \in controls : NoteOff(note)
  \/ ControlChange
  \/ SysexReceived
  \/ OtherMessage
  \/ SendUpdate
  \/ SendUpdateFails
  \/ InterruptInLoop
  \/ InterruptAtBoot

Spec == Init /\ [][Next]_vars

(***************************************************************************)
(* create_led_sysex on its own: the update list is drawn from the lists of *)
(* at most MaxLen updates over a few controls and palette colors, and the  *)
(* one step applies create_led_sysex to it.  updates holds the argument,   *)
(* sent the message returned (no entry for None).                          *)
(***************************************************************************)
EncodeControls == {11, 98, 106}

EncodeColors == {M8_COLORS.white, M8_COLORS.dim_blue, M8_COLORS.orange}

UpdateLists ==
  UNION {[1..n -> EncodeControls \X EncodeColors] : n \in 0..MaxLen}

InitEncode ==
  /\ m8 = VirtualM8Init
  /\ inport = "unopened"
  /\ outport = "unopened"
  /\ pc = "encode"
  /\ msg = NoMsg
  /\ updates \in UpdateLists
  /\ sent = <<>>
  /\ handled = <<>>
  /\ controls = {}

Encode ==
  /\ pc = "encode"
  /\ LET sysex == create_led_sysex(updates)
     IN sent' = IF sysex # None THEN <<sysex>> ELSE <<>>
  /\ pc' = "encoded"
  /\ UNCHANGED <<m8, inport, outport, msg, updates, handled, controls>>

SpecEncode == InitEncode /\ [][Encode]_vars

(***************************************************************************)
(* Vocabulary of the properties.                                           *)
(***************************************************************************)
\* the message being processed decoded to a press / a release
IsPress == msg.type = "note_on" /\ msg.velocity > 0

IsRelease == msg.type = "note_off" \/ (msg.type = "note_on" /\ msg.velocity = 0)

\* the step processes one inbound message
MessageStep == Len(handled') = Len(handled) + 1

\* both digits of c in 1..8
GridCells == {r * 10 + c : r \in 1..8, c \in 1..8}

Selectors == 91..98

NavControls == {89, 79, 69, 59}

\* the color IlluminationState stores for control c, <<>> if it has no entry
Stored(c) == IF DictHas(m8.led_state, c) THEN DictGet(m8.led_state, c) ELSE <<>>

\* the wire form of one single-control update
Quad(c, color) == <<c, color[1], color[2], color[3]>>

VendorHeader == <<0, 32, 41, 2, 16>>

(***************************************************************************)
(* C1: whenever the message just processed is a press of a track selector  *)
(* 91+i, the returned update is the 8 entries for 91..98 in ascending      *)
(* order, 91+i cyan and the other seven dim white, IlluminationState       *)
(* stores exactly those colors, and the selected track is i.               *)
(***************************************************************************)
C1_SelectorRow(sel) ==
  [k \in 1..8 |-> <<90 + k, IF 90 + k = sel THEN <<0, 63, 63>> ELSE <<20, 20, 20>> >>]

C1_TrackPressRepaintsRow ==
  (IsPress /\ msg.note \in Selectors) =>
     /\ updates = C1_SelectorRow(msg.note)
     /\ Len(updates) = 8
     /\ \A k \in 1..8 : Stored(90 + k) = C1_SelectorRow(msg.note)[k][2]
     /\ m8.current_track = msg.note - 91

\* a selector other than the boot one is pressed while it is already selected
C1_Witness ==
  /\ IsPress /\ msg.note \in Selectors \ {91}
  /\ Len(handled) >= 2
  /\ handled[Len(handled) - 1] = C1_SelectorRow(msg.note)
  /\ handled[Len(handled)] = C1_SelectorRow(msg.note)
  /\ m8.current_track = msg.note - 91

(***************************************************************************)
(* C2: whenever the message just processed is a release of a grid cell c,  *)
(* IlluminationState[c] is dim white, the value it had at boot, whatever   *)
(* was processed before the release.                                       *)
(***************************************************************************)
C2_GridReleaseRestoresDim ==
  (IsRelease /\ msg.note \in GridCells) =>
     /\ Stored(msg.note) = <<20, 20, 20>>
     /\ Stored(msg.note) = DictGet(VirtualM8Init.led_state, msg.note)

\* press(c), then a press of another control, then release(c)
C2_Witness ==
  /\ IsRelease /\ msg.note \in GridCells
  /\ Len(handled) = 3
  /\ handled[1] = << <<msg.note, <<63, 63, 63>> >> >>
  /\ handled[2] # <<>> /\ handled[2][1][1] # msg.note
  /\ handled[3] = << <<msg.note, <<20, 20, 20>> >> >>
  /\ Stored(msg.note) = <<20, 20, 20>>

(***************************************************************************)
(* C3: a press of a grid cell c processed right after a press of the same  *)
(* c leaves the device state (IlluminationState, selected track, modifier  *)
(* flag) as the first press left it, and both presses return the single    *)
(* update (c, white).                                                      *)
(***************************************************************************)
C3_GridPressIdempotent ==
  [][ ( /\ MessageStep
        /\ IsPress /\ msg.note \in GridCells
        /\ IsPress' /\ msg'.note = msg.note )
      => ( /\ m8' = m8
           /\ updates = << <<msg.note, <<63, 63, 63>> >> >>
           /\ updates' = updates
           /\ Stored(msg.note) = <<63, 63, 63>> ) ]_vars

\* the same grid cell pressed twice in a row
C3_Witness ==
  /\ IsPress /\ msg.note \in GridCells
  /\ Len(handled) >= 2
  /\ handled[Len(handled) - 1] = << <<msg.note, <<63, 63, 63>> >> >>
  /\ handled[Len(handled)] = << <<msg.note, <<63, 63, 63>> >> >>
  /\ Stored(msg.note) = <<63, 63, 63>>

(***************************************************************************)
(* C4: for an update list of length n >= 1 create_led_sysex returns one    *)
(* message whose data is 00 20 29 02 10, then 0B, then for each update in  *)
(* input order the 4 bytes (ControlId, R, G, B), so of length 5 + 1 + 4n;  *)
(* for the empty list it returns None and no message is built.             *)
(***************************************************************************)
C4_EncodeLayout ==
  pc = "encoded" =>
    IF updates = <<>>
    THEN sent = <<>>
    ELSE /\ Len(sent) = 1
         /\ Len(sent[1]) = Len(VendorHeader) + 1 + 4 * Len(updates)
         /\ SubSeq(sent[1], 1, 5) = VendorHeader
         /\ sent[1][6] = 11
         /\ \A i \in 1..Len(updates) :
              SubSeq(sent[1], 6 + 4 * (i - 1) + 1, 6 + 4 * i)
                = Quad(updates[i][1], updates[i][2])

\* a list of three updates, not all alike, encoded to 18 bytes
C4_Witness ==
  /\ pc = "encoded"
  /\ Len(updates) = 3
  /\ updates[1] # updates[3]
  /\ Len(sent) = 1 /\ Len(sent[1]) = 18

(***************************************************************************)
(* C5: the frames written after the boot snapshot are, in arrival order,   *)
(* the encodings of the non-empty updates of the messages processed, one   *)
(* frame per non-empty update and none for an empty one: whenever the loop *)
(* is about to take the next message every frame is written; while the     *)
(* frame of the last message is being written, or its write was cut short  *)
(* by a failure or an interrupt, only that last frame can be missing.      *)
(***************************************************************************)
RECURSIVE C5_FramesOf(_)
C5_FramesOf(hs) ==
  IF hs = <<>> THEN <<>>
  ELSE (IF Head(hs) = <<>> THEN <<>> ELSE <<create_led_sysex(Head(hs))>>)
         \o C5_FramesOf(Tail(hs))

\* the frames written after the first one
C5_AfterSnapshot == SubSeq(sent, 2, Len(sent))

C5_AllWritten == Len(sent) >= 1 /\ C5_AfterSnapshot = C5_FramesOf(handled)

C5_LastPending ==
  /\ handled # <<>>
  /\ handled[Len(handled)] # <<>>
  /\ updates = handled[Len(handled)]
  /\ Len(sent) >= 1
  /\ C5_AfterSnapshot = C5_FramesOf(SubSeq(handled, 1, Len(handled) - 1))

C5_FramesInArrivalOrder ==
  /\ pc = "poll" => C5_AllWritten
  /\ pc = "send" => C5_LastPending
  /\ (pc \in {"returned", "raised_in_loop"} /\ outport = "closed")
       => (C5_AllWritten \/ C5_LastPending)

\* three messages, the second with an empty update, the others with different
\* non-empty ones: the snapshot and two frames are written
C5_Witness ==
  /\ pc = "poll"
  /\ Len(handled) = 3
  /\ handled[1] # <<>> /\ handled[2] = <<>> /\ handled[3] # <<>>
  /\ handled[1] # handled[3]
  /\ Len(sent) = 3
  /\ sent[2] # sent[3]

(***************************************************************************)
(* C6: the first frame written is the full-resync snapshot, written before *)
(* any message is processed; it stays the first frame, no later frame is a *)
(* snapshot, and no message is processed before it is written.  The        *)
(* snapshot holds one quad per entry of the boot IlluminationState: the 64 *)
(* grid cells dim white, selector 91 cyan, selectors 92..98 dim white, the *)
(* 4 navigation controls dim blue.                                         *)
(***************************************************************************)
C6_QuadsOf(frame) ==
  {SubSeq(frame, 6 + 4 * (i - 1) + 1, 6 + 4 * i) : i \in 1..((Len(frame) - 6) \div 4)}

C6_BootQuads ==
  {<<c, 20, 20, 20>> : c \in GridCells} \cup {<<91, 0, 63, 63>>}
    \cup {<<c, 20, 20, 20>> : c \in 92..98} \cup {<<c, 0, 0, 20>> : c \in NavControls}

C6_IsSnapshot(frame) ==
  /\ Len(frame) = 6 + 4 * 76
  /\ SubSeq(frame, 1, 6) = VendorHeader \o <<11>>
  /\ C6_QuadsOf(frame) = C6_BootQuads

C6_SnapshotFirstAndOnce ==
  [][ /\ (sent = <<>> /\ sent' # <<>>) =>
           /\ handled = <<>> /\ handled' = <<>>
           /\ Len(sent') = 1
           /\ C6_IsSnapshot(sent'[1])
      /\ sent # <<>> =>
           /\ Len(sent') >= Len(sent)
           /\ sent'[1] = sent[1]
           /\ Len(sent') > Len(sent) => ~C6_IsSnapshot(sent'[Len(sent')])
      /\ handled' # <<>> => sent # <<>> ]_vars

\* the snapshot followed by the frame of a processed message
C6_Witness ==
  /\ Len(handled) >= 1
  /\ Len(sent) = 2
  /\ C6_IsSnapshot(sent[1])

(***************************************************************************)
(* C7: whenever the message just processed is a press of a navigation      *)
(* control n (89, 79, 69, 59) the update is the single entry (n, blue),    *)
(* whenever it is a release of n the update is the single entry            *)
(* (n, dim blue); the update is the last one returned, IlluminationState   *)
(* stores its color, and once written its frame is the last frame.         *)
(***************************************************************************)
C7_NavUpdate(color) ==
  /\ updates = << <<msg.note, color>> >>
  /\ handled[Len(handled)] = updates
  /\ Stored(msg.note) = color
  /\ pc = "poll" => sent[Len(sent)] = VendorHeader \o <<11>> \o Quad(msg.note, color)

C7_NavPressThenRelease ==
  /\ (IsPress /\ msg.note \in NavControls) => C7_NavUpdate(<<0, 0, 63>>)
  /\ (IsRelease /\ msg.note \in NavControls) => C7_NavUpdate(<<0, 0, 20>>)

\* from boot: press of a navigation control, then its release; two updates
\* and two frames, active blue first and dim blue second
C7_Witness ==
  /\ pc = "poll"
  /\ IsRelease /\ msg.note \in NavControls
  /\ handled = << << <<msg.note, <<0, 0, 63>> >> >>, << <<msg.note, <<0, 0, 20>> >> >> >>
  /\ Len(sent) = 3
  /\ sent[2] = VendorHeader \o <<11>> \o <<msg.note, 0, 0, 63>>
  /\ sent[3] = VendorHeader \o <<11>> \o <<msg.note, 0, 0, 20>>

(***************************************************************************)
(* C8: a step that processes a press or a release of an identifier that is *)
(* no grid cell, track selector, navigation control or shift returns an    *)
(* empty update, writes no frame, goes on polling, and leaves the device   *)
(* state unchanged; so do handle_note_on and handle_note_off called on an  *)
(* identifier outside the MIDI note range such as 999.                     *)
(***************************************************************************)
C8_Recognized == GridCells \cup Selectors \cup NavControls \cup {106}

C8_OutOfRange == {999, 128, -1}

C8_UnknownIgnored ==
  [][ /\ ( /\ MessageStep
           /\ msg'.type \in {"note_on", "note_off"}
           /\ msg'.note \notin C8_Recognized )
         => ( /\ updates' = <<>>
              /\ m8' = m8
              /\ sent' = sent
              /\ pc' = "poll"
              /\ inport' = "open" /\ outport' = "open" )
      /\ \A n \in C8_OutOfRange :
           /\ handle_note_on(m8, n, 1) = [self |-> m8, ret |-> <<>>]
           /\ handle_note_off(m8, n, 0) = [self |-> m8, ret |-> <<>>]
           /\ create_led_sysex(handle_note_on(m8, n, 1).ret) = None ]_vars

\* a press of an unrecognized identifier processed after two messages that
\* changed the device state
C8_Witness ==
  /\ IsPress /\ msg.note \notin C8_Recognized
  /\ pc = "poll"
  /\ Len(handled) = 3
  /\ handled[1] # <<>> /\ handled[2] # <<>> /\ handled[3] = <<>>
  /\ updates = <<>>
  /\ m8 # VirtualM8Init
  /\ Len(sent) = 3

(***************************************************************************)
(* C9: a failed send of an outbound frame never ends the processing loop:  *)
(* no exception leaves run_virtual_m8 from inside the loop.                *)
(***************************************************************************)
C9_SendFailureKeepsLoop == pc # "raised_in_loop"

(***************************************************************************)
(* C10: whenever the message just processed is a press of shift (106) the  *)
(* modifier flag is true, IlluminationState stores orange for 106 and the  *)
(* update is the single entry (106, orange); whenever it is a release of   *)
(* shift the flag is false, IlluminationState stores dim white for 106 and *)
(* the update is the single entry (106, dim white).                        *)
(***************************************************************************)
C10_ShiftRecolored ==
  /\ (IsPress /\ msg.note = 106) =>
        /\ m8.shift_held = TRUE
        /\ updates = << <<106, <<63, 32, 0>> >> >>
        /\ Stored(106) = <<63, 32, 0>>
  /\ (IsRelease /\ msg.note = 106) =>
        /\ m8.shift_held = FALSE
        /\ updates = << <<106, <<20, 20, 20>> >> >>
        /\ Stored(106) = <<20, 20, 20>>

(***************************************************************************)
(* C11: in every state IlluminationState has an entry for every control    *)
(* the device can light: the 64 grid cells, the 8 track selectors, the 4   *)
(* navigation controls and shift (106), and so for every control an update *)
(* was just returned for.                                                  *)
(***************************************************************************)
C11_Lightable == GridCells \cup Selectors \cup NavControls \cup {106}

C11_EveryLightableHasEntry ==
  /\ \A c \in C11_Lightable : DictHas(m8.led_state, c)
  /\ \A i \in 1..Len(updates) : DictHas(m8.led_state, updates[i][1])

(***************************************************************************)
(* C12: while the input or the output port was not acquired the run is     *)
(* either still opening them or has returned; it never reaches the         *)
(* snapshot or the loop: no frame is written and no message is taken.      *)
(***************************************************************************)
C12_OpenFailureEndsRun ==
  (inport = "unopened" \/ outport = "unopened") =>
     /\ pc \in {"open", "returned"}
     /\ sent = <<>>
     /\ handled = <<>>
     /\ msg = NoMsg
     /\ updates = <<>>

\* open_output failed after open_input succeeded and the run returned
C12_Witness ==
  /\ pc = "returned"
  /\ inport = "open" /\ outport = "unopened"
  /\ sent = <<>> /\ handled = <<>>

(***************************************************************************)
(* C13: once both ports were opened, an operator interrupt ends the run    *)
(* with the input port and the output port both closed.                    *)
(***************************************************************************)
\* the run was ended by a KeyboardInterrupt after both ports were opened
C13_Interrupted ==
  \/ pc = "interrupted_at_boot"
  \/ (pc = "returned" /\ inport # "unopened" /\ outport # "unopened")

C13_InterruptClosesPorts ==
  C13_Interrupted => (inport = "closed" /\ outport = "closed")

(***************************************************************************)
(* C14: a step that processes a release of a grid cell stores dim white    *)
(* for it and returns that single update, a release of a navigation        *)
(* control stores dim blue and returns that single update, whatever was    *)
(* pressed before; a release of a track selector returns the empty update  *)
(* and leaves the device state unchanged.                                  *)
(***************************************************************************)
C14_ReleaseNeedsNoPress ==
  [][ (MessageStep /\ IsRelease') =>
        /\ msg'.note \in GridCells =>
             /\ updates' = << <<msg'.note, <<20, 20, 20>> >> >>
             /\ DictGet(m8'.led_state, msg'.note) = <<20, 20, 20>>
        /\ msg'.note \in NavControls =>
             /\ updates' = << <<msg'.note, <<0, 0, 20>> >> >>
             /\ DictGet(m8'.led_state, msg'.note) = <<0, 0, 20>>
        /\ msg'.note \in Selectors =>
             /\ updates' = <<>>
             /\ m8' = m8 ]_vars

\* the first message of the run is the release of a navigation control
C14_Witness ==
  /\ IsRelease /\ msg.note \in NavControls
  /\ Len(handled) = 1
  /\ updates = << <<msg.note, <<0, 0, 20>> >> >>
  /\ Stored(msg.note) = <<0, 0, 20>>

(***************************************************************************)
(* C15: a step that processes a control-change or a sysex message leaves   *)
(* the device state (IlluminationState, selected track, modifier flag)     *)
(* unchanged, returns no update, writes no frame and goes on polling.      *)
(***************************************************************************)
C15_ControlChangeAndSysexInert ==
  [][ (MessageStep /\ msg'.type \in {"control_change", "sysex"}) =>
        /\ m8' = m8
        /\ updates' = <<>>
        /\ sent' = sent
        /\ pc' = "poll" ]_vars

\* a control change processed after two messages that changed the device
C15_Witness ==
  /\ msg.type = "control_change"
  /\ pc = "poll"
  /\ Len(handled) = 3
  /\ handled[1] # <<>> /\ handled[2] # <<>> /\ handled[3] = <<>>
  /\ m8 # VirtualM8Init
  /\ Len(sent) = 3

(***************************************************************************)
(* C16: a step that processes a press or a release of a grid cell or a     *)
(* navigation control changes no entry of IlluminationState but that       *)
(* control's, and neither the selected track nor the modifier flag; in     *)
(* every step the selected track changes only by a track-selector press,   *)
(* the modifier flag only by a press or release of shift, and the device   *)
(* state changes only when a message is processed.                         *)
(***************************************************************************)
C16_NoteMessage == msg'.type \in {"note_on", "note_off"}

C16_OnlyOwnEntryChanges ==
  [][ /\ ( /\ MessageStep
           /\ C16_NoteMessage
           /\ msg'.note \in GridCells \cup NavControls )
         => /\ Len(m8'.led_state) = Len(m8.led_state)
            /\ \A i \in 1..Len(m8.led_state) :
                 m8.led_state[i][1] # msg'.note => m8'.led_state[i] = m8.led_state[i]
            /\ m8'.current_track = m8.current_track
            /\ m8'.shift_held = m8.shift_held
      /\ m8'.current_track # m8.current_track =>
            /\ MessageStep
            /\ msg'.type = "note_on" /\ msg'.velocity > 0
            /\ msg'.note \in Selectors
      /\ m8'.shift_held # m8.shift_held =>
            /\ MessageStep
            /\ C16_NoteMessage
            /\ msg'.note = 106
      /\ ~MessageStep => m8' = m8 ]_vars

\* a navigation press while track 4 is selected and the modifier is held or
\* a grid pad is lit
C16_Witness ==
  /\ IsPress /\ msg.note \in NavControls
  /\ Len(handled) = 3
  /\ m8.current_track = 3
  /\ Stored(94) = <<0, 63, 63>>
  /\ Stored(msg.note) = <<0, 0, 63>>

(***************************************************************************)
(* C17: every frame written to the output (the boot snapshot and every     *)
(* frame written after an event) is appended to the frames written so far, *)
(* and each R, G and B byte of each of its quads is within 0..63.          *)
(***************************************************************************)
C17_ChannelsInRange(frame) ==
  \A i \in 7..Len(frame) : (i - 6) % 4 # 1 => frame[i] \in 0..63

C17_FrameChannelsInRange ==
  [][ Len(sent') # Len(sent) =>
        /\ Len(sent') = Len(sent) + 1
        /\ SubSeq(sent', 1, Len(sent)) = sent
        /\ C17_ChannelsInRange(sent'[Len(sent')]) ]_vars

\* the frame that answers a shift press, the one color with a channel that
\* is neither 0, 20 nor 63, has been written after the boot snapshot
C17_Witness ==
  /\ Len(sent) >= 2
  /\ sent[Len(sent)] = VendorHeader \o <<11>> \o Quad(106, <<63, 32, 0>>)
  /\ C17_ChannelsInRange(sent[1])

(***************************************************************************)
(* C18: a step that processes a note-on with velocity 0 and a step that    *)
(* processes a note-off give, from the same state and for the same         *)
(* control, the same next device state and the same update, the one of a   *)
(* release; a step that processes a note-on with velocity above 0 gives    *)
(* the next state and update of a press, the same for every velocity.      *)
(***************************************************************************)
C18_Outcome == [self |-> m8', ret |-> updates']

C18_ZeroVelocityIsRelease ==
  [][ MessageStep =>
        /\ ( \/ msg'.type = "note_off"
             \/ (msg'.type = "note_on" /\ msg'.velocity = 0) )
           => /\ C18_Outcome = handle_note_off(m8, msg'.note, 0)
              /\ C18_Outcome = handle_note_off(m8, msg'.note, 64)
        /\ (msg'.type = "note_on" /\ msg'.velocity > 0)
           => \A v \in Velocities \ {0} :
                C18_Outcome = handle_note_on(m8, msg'.note, v) ]_vars

\* a lit grid pad is put out by a note-on with velocity 0
C18_Witness ==
  /\ msg.type = "note_on" /\ msg.velocity = 0
  /\ msg.note \in GridCells
  /\ Len(handled) = 2
  /\ handled[1] = << <<msg.note, <<63, 63, 63>> >> >>
  /\ handled[2] = << <<msg.note, <<20, 20, 20>> >> >>
  /\ Stored(msg.note) = <<20, 20, 20>>

(***************************************************************************)
(* C19: in every reachable state the selected track is in 0..7, selector   *)
(* 91 + selected track is cyan in IlluminationState and the other seven    *)
(* selectors of 91..98 are dim white: it is so in the initial state and    *)
(* every step that changes the device state leaves it so.                  *)
(***************************************************************************)
C19_SelectorRowMatchesTrack ==
  LET led == m8.led_state
  IN /\ m8.current_track \in 0..7
     /\ Selectors \subseteq {led[i][1] : i \in 1..Len(led)}
     /\ \A i \in 1..Len(led) :
          led[i][1] \in Selectors =>
            led[i][2] = IF led[i][1] = 91 + m8.current_track THEN <<0, 63, 63>>
                                                              ELSE <<20, 20, 20>>

C19_OneActiveSelector ==
  /\ C19_SelectorRowMatchesTrack
  /\ [][m8' # m8 => C19_SelectorRowMatchesTrack']_vars

\* track 4 is selected and a grid pad has been pressed since
C19_Witness ==
  /\ m8.current_track = 3
  /\ Stored(94) = <<0, 63, 63>>
  /\ Stored(91) = <<20, 20, 20>>
  /\ IsPress /\ msg.note \in GridCells
  /\ Stored(msg.note) = <<63, 63, 63>>

(***************************************************************************)
(* C20: in every state after the boot snapshot, an observer that applies   *)
(* the quads of the frames written so far in the order written, the last   *)
(* write to a control winning, holds for every control present in          *)
(* IlluminationState the color stored there, the controls of an update     *)
(* whose frame has not been written excepted; and no step changes the      *)
(* controls present in IlluminationState.                                  *)
(***************************************************************************)
\* the number of quads of written frame f, the control of its quad q, and
\* whether that quad gives the control the color
C20_Count(f) == (Len(sent[f]) - 6) \div 4

C20_Control(f, q) == sent[f][4 * q + 3]

C20_Shows(f, q, color) ==
  /\ sent[f][4 * q + 4] = color[1]
  /\ sent[f][4 * q + 5] = color[2]
  /\ sent[f][4 * q + 6] = color[3]

\* the update of the last processed message has no frame on the output
C20_Unsent ==
  Len(sent) # 1 + Cardinality({i \in 1..Len(handled) : handled[i] # <<>>})

\* the last processed message's update names control c and has no frame yet
C20_Pending(c) ==
  C20_Unsent /\ \E j \in 1..Len(updates) : updates[j][1] = c

\* a frame after the snapshot has a quad for control c
C20_Written(c) ==
  \E f \in 2..Len(sent) : \E q \in 1..C20_Count(f) : C20_Control(f, q) = c

\* no quad after quad q of frame f is for the same control
C20_IsLast(f, q) ==
  /\ \A r \in (q + 1)..C20_Count(f) : C20_Control(f, r) # C20_Control(f, q)
  /\ \A g \in (f + 1)..Len(sent) :
       \A r \in 1..C20_Count(g) : C20_Control(g, r) # C20_Control(f, q)

C20_ObserverAgrees ==
  LET led == m8.led_state
      boot == sent[1]
  IN sent # <<>> =>
       \* a control never written after the snapshot shows its snapshot quad
       /\ Len(boot) >= 6 + 4 * Len(led)
       /\ \A i \in 1..Len(led) :
            \/ SubSeq(boot, 4 * i + 3, 4 * i + 6) = <<led[i][1]>> \o led[i][2]
            \/ C20_Written(led[i][1])
            \/ C20_Pending(led[i][1])
       \* a control written after the snapshot shows its last quad
       /\ \A f \in 2..Len(sent) : \A q \in 1..C20_Count(f) :
            (C20_IsLast(f, q) /\ ~C20_Pending(C20_Control(f, q))) =>
               \A i \in 1..Len(led) :
                 led[i][1] = C20_Control(f, q) => C20_Shows(f, q, led[i][2])

C20_Keys(led) == [i \in 1..Len(led) |-> led[i][1]]

C20_ObserverTracksState ==
  [][ /\ (m8' # m8 \/ Len(sent') # Len(sent)) => C20_ObserverAgrees'
      /\ m8'.led_state # m8.led_state =>
           C20_Keys(m8'.led_state) = C20_Keys(m8.led_state) ]_vars

\* with track 4 selected a grid pad was lit and put out again: the observer
\* has seen three frames after the snapshot, two of them for the same pad
C20_Witness ==
  /\ pc = "poll" /\ ~C20_Unsent
  /\ Len(sent) = 4
  /\ m8.current_track = 3
  /\ IsRelease /\ msg.note \in GridCells
  /\ handled[2] = << <<msg.note, <<63, 63, 63>> >> >>
  /\ Stored(msg.note) = <<20, 20, 20>>
  /\ C20_ObserverAgrees

====
